---- MODULE Spec2Model ----
(***************************************************************************)
(* Model of the subnetting core of ip-subnetting (src/src/net.rs,          *)
(* src/src/task.rs).                                                       *)
(*                                                                         *)
(* A machine word (u32, u128) is the set of the positions of its one-bits, *)
(* position 0 being the least significant bit, so both widths keep their   *)
(* full size.  A call that can panic returns a record [ok, v, msg].        *)
(* Arithmetic and shift overflow panics when the build has overflow checks *)
(* (cargo's dev profile) and wraps when it has not (the release profile);  *)
(* the profile is the variable overflow_checks.                            *)
(***************************************************************************)
EXTENDS Integers, FiniteSets, Sequences

VARIABLES
    overflow_checks,  \* TRUE: dev profile, FALSE: release profile
    family,           \* "V4" or "V6": the type the generic code is instantiated at
    pc,               \* position of the run
    network,          \* result of the GenNet::new call that built the base network
    subnets,          \* Task.subnets (a u32 word)
    ret               \* operation called last and what it returned

vars == <<overflow_checks, family, pc, network, subnets, ret>>

----------------------------------------------------------------------------
(* Bounds of the model *)

\* cidr arguments range over 0 .. BITS + MaxCidrOver
MaxCidrOver == 1
\* addresses include the words with every s-th bit set, s in 2..MaxStride
MaxStride == 3
\* requested counts include every value 0..MaxCount
MaxCount == 5
\* target_networks is followed for at most 2^MaxExtraBits subnets
MaxExtraBits == 3

----------------------------------------------------------------------------
(* Results of calls that can panic *)

\* ret: the operation called, its arguments and what it returned
NoCall == [op |-> "none", arg |-> <<>>, ok |-> TRUE, v |-> {}, msg |-> ""]

Call(name, arg, r) == [op |-> name, arg |-> arg, ok |-> r.ok, v |-> r.v, msg |-> r.msg]

Ok(val) == [ok |-> TRUE, v |-> val, msg |-> ""]

Panic(m) == [ok |-> FALSE, v |-> {}, msg |-> m]

\* checked arithmetic: the wrapped value in a build without overflow checks
Overflow(m, wrapped) == IF overflow_checks THEN Panic(m) ELSE Ok(wrapped)

----------------------------------------------------------------------------
(* IpByteTypeHelper / IpByteType: the words *)

BITS(f) == IF f = "V4" THEN 32 ELSE 128

MAX(w) == 0 .. (w - 1)

ZERO == {}

ONE == {0}

Not(x, w) == MAX(w) \ x

BitAnd(x, y) == x \cap y

BitOr(x, y) == x \cup y

Max(S) == CHOOSE m \in S : \A y \in S : y <= m

Min(S) == CHOOSE m \in S : \A y \in S : m <= y

\* x << s for 0 <= s < w
wrapping_shl(x, s, w) == {b \in MAX(w) : (b - s) \in x}

\* x << (a - b): the amount a - b is computed in u8 or u32, whose sizes are
\* multiples of w, so a wrapped amount is masked to (a - b) mod w
Shl(x, a, b, w) ==
    IF a < b
    THEN Overflow("attempt to subtract with overflow", wrapping_shl(x, (a - b + 256) % w, w))
    ELSE IF a - b >= w
         THEN Overflow("attempt to shift left with overflow", wrapping_shl(x, (a - b) % w, w))
         ELSE Ok(wrapping_shl(x, a - b, w))

\* x + ONE
Add1(x, w) ==
    IF x = MAX(w)
    THEN Overflow("attempt to add with overflow", ZERO)
    ELSE LET z == Min(MAX(w) \ x) IN Ok((x \ (0 .. (z - 1))) \cup {z})

\* x - ONE
Sub1(x, w) ==
    IF x = ZERO
    THEN Overflow("attempt to subtract with overflow", MAX(w))
    ELSE LET z == Min(x) IN Ok((x \ {z}) \cup (0 .. (z - 1)))

\* the word of a small natural number
FromNat(n, w) == {b \in 0 .. 30 : b < w /\ (n \div (2 ^ b)) % 2 = 1}

\* order of the words as unsigned integers
Lt(x, y) == x # y /\ Max((x \ y) \cup (y \ x)) \in y

Le(x, y) == x = y \/ Lt(x, y)

----------------------------------------------------------------------------
(* net.rs: masks, network and broadcast address *)

sn_from_cidr_gen_bits(cidr, w) == Shl(MAX(w), w, cidr, w)

na_from_ip_and_cidr_gen(ip, cidr, w) ==
    LET sn == sn_from_cidr_gen_bits(cidr, w)
    IN  IF sn.ok THEN Ok(BitAnd(ip, sn.v)) ELSE sn

\* bc_from_ip_and_cidr_gen without the complement of the mask
bc_from_ip_and_cidr_gen_no_not(ip, cidr, w) ==
    LET sn == sn_from_cidr_gen_bits(cidr, w)
    IN  IF sn.ok THEN Ok(BitOr(ip, sn.v)) ELSE sn

bc_from_ip_and_cidr_gen(ip, cidr, w) ==
    LET sn == sn_from_cidr_gen_bits(cidr, w)
    IN  IF sn.ok THEN Ok(BitOr(ip, Not(sn.v, w))) ELSE sn

GenNet(ip, na, bc, from, until, cidr) ==
    [initial_ip |-> ip, na |-> na, bc |-> bc,
     host_from |-> from, host_until |-> until, cidr |-> cidr]

\* GenNet::new taking the first host from the given address, not from the
\* network address
GenNetNew_from_ip(ip, cidr, w) ==
    IF w < cidr THEN Panic("CIDR to big")
    ELSE
    LET na == na_from_ip_and_cidr_gen(ip, cidr, w) IN
    IF ~na.ok THEN na ELSE
    LET bc == bc_from_ip_and_cidr_gen(na.v, cidr, w) IN
    IF ~bc.ok THEN bc ELSE
    LET from == Add1(ip, w) IN
    IF ~from.ok THEN from ELSE
    LET until == Sub1(bc.v, w) IN
    IF ~until.ok THEN until ELSE
    Ok(GenNet(ip, na.v, bc.v, from.v, until.v, cidr))

GenNetNew(ip, cidr, w) ==
    IF w < cidr THEN Panic("CIDR to big")
    ELSE
    LET na == na_from_ip_and_cidr_gen(ip, cidr, w) IN
    IF ~na.ok THEN na ELSE
    LET bc == bc_from_ip_and_cidr_gen(na.v, cidr, w) IN
    IF ~bc.ok THEN bc ELSE
    LET from == Add1(na.v, w) IN
    IF ~from.ok THEN from ELSE
    LET until == Sub1(bc.v, w) IN
    IF ~until.ok THEN until ELSE
    Ok(GenNet(ip, na.v, bc.v, from.v, until.v, cidr))

subnetmask_bits(net, w) == sn_from_cidr_gen_bits(net.cidr, w)

host_bits(net) == <<net.host_from, net.host_until>>

----------------------------------------------------------------------------
(* task.rs: the partition of a network *)

is_power_of_two(x) == Cardinality(x) = 1

\* u32::next_power_of_two
next_power_of_two(x) ==
    IF x = ZERO THEN Ok(ONE)
    ELSE IF is_power_of_two(x) THEN Ok(x)
    ELSE IF Max(x) + 1 < 32 THEN Ok({Max(x) + 1})
    ELSE Overflow("attempt to add with overflow", ZERO)

\* u32::ilog2
ilog2(x) ==
    IF x = ZERO THEN Panic("argument of integer logarithm must be positive")
    ELSE Ok(Max(x))

\* a + b in u8
AddU8(a, b) ==
    IF a + b > 255 THEN Overflow("attempt to add with overflow", (a + b) % 256)
    ELSE Ok(a + b)

\* a - b in u8
SubU8(a, b) ==
    IF a < b THEN Overflow("attempt to subtract with overflow", a - b + 256)
    ELSE Ok(a - b)

\* 2u32.pow(e), and its widening to u128
pow(e) ==
    IF e < 32 THEN Ok({e})
    ELSE Overflow("attempt to multiply with overflow", ZERO)

target_cidr(net, subs) ==
    LET num == IF is_power_of_two(subs) THEN Ok(subs) ELSE next_power_of_two(subs) IN
    IF ~num.ok THEN num ELSE
    LET log == ilog2(num.v) IN
    IF ~log.ok THEN log ELSE
    LET default == AddU8(net.cidr, 2) IN
    IF ~default.ok THEN default ELSE
    LET n == IF log.v <= 255 THEN log.v ELSE default.v IN
    AddU8(n, net.cidr)

new_subnets(net, subs) ==
    LET t == target_cidr(net, subs) IN
    IF ~t.ok THEN t ELSE
    LET e == SubU8(t.v, net.cidr) IN
    IF ~e.ok THEN e ELSE
    pow(e.v)

calc_subnet_address(sna, sn, tcidr, net_idx, w) ==
    LET tsn == sn_from_cidr_gen_bits(tcidr, w) IN
    IF ~tsn.ok THEN tsn ELSE
    LET mask == BitAnd(Not(sn, w), tsn.v)
        shifted == Shl(net_idx, w, tcidr, w)
    IN  IF ~shifted.ok THEN shifted
        ELSE Ok(BitOr(BitAnd(shifted.v, mask), sna))

\* what the model answers for a loop of more than 2^MaxExtraBits iterations
TooLong == "more than 2^MaxExtraBits subnets"

\* the loop of target_networks from index i on, nas the subnets pushed so far
RECURSIVE target_networks_loop(_, _, _, _, _, _, _)
target_networks_loop(net, subs, tcidr, networks, i, nas, w) ==
    IF ~Lt(FromNat(i, w), networks) THEN Ok(nas)
    ELSE IF i >= 2 ^ MaxExtraBits THEN Panic(TooLong)
    ELSE
    LET sn == subnetmask_bits(net, w) IN
    IF ~sn.ok THEN sn ELSE
    LET t == target_cidr(net, subs) IN
    IF ~t.ok THEN t ELSE
    LET na == calc_subnet_address(net.na, sn.v, t.v, FromNat(i, w), w) IN
    IF ~na.ok THEN na ELSE
    LET sub == GenNetNew(na.v, tcidr, w) IN
    IF ~sub.ok THEN sub
    ELSE target_networks_loop(net, subs, tcidr, networks, i + 1, Append(nas, sub.v), w)

target_networks(net, subs, w) ==
    LET tcidr == target_cidr(net, subs) IN
    IF ~tcidr.ok THEN tcidr ELSE
    LET e == SubU8(tcidr.v, net.cidr) IN
    IF ~e.ok THEN e ELSE
    LET networks == pow(e.v) IN
    IF ~networks.ok THEN networks
    ELSE target_networks_loop(net, subs, tcidr.v, networks.v, 0, <<>>, w)

----------------------------------------------------------------------------
(* Inputs *)

Families == {"V4", "V6"}

\* 192.168.0.0 and 2001:db8::
ExampleAddr(w) ==
    IF w = 32 THEN {31, 30, 23, 21, 19}
    ELSE {125, 112, 107, 106, 104, 103, 101, 100, 99}

Addrs(w) ==
    {ZERO, MAX(w), ExampleAddr(w)}
        \cup {{b \in MAX(w) : b % s = 0} : s \in 2 .. MaxStride}

Cidrs(w) == 0 .. (w + MaxCidrOver)

\* requested counts: the small ones and the ones around the top of u32
Counts ==
    {FromNat(n, 32) : n \in 0 .. MaxCount}
        \cup {FromNat(16, 32), {30}, {30, 0}, {31}, {31, 0}, MAX(32)}

----------------------------------------------------------------------------
(* task.rs: TaskGen<V4>::rand *)

\* arguments min_cidr and max_cidr: 0, the command line defaults 16 and 28,
\* and the values around 30 and 32
RandCidrs == {0, 16, 28, 30, 31, 32 + MaxCidrOver}

\* argument min_subnets: 0, the command line default 2, and 8
RandMinSubnets == {ZERO, {1}, {3}}

\* argument max_subnets: the command line default 32, and u32::MAX
RandMaxSubnets == {{5}, MAX(32)}

\* std::cmp::min of two u32
min(a, b) == IF Lt(b, a) THEN b ELSE a

\* the upper end of the range of the number of subnets, with 32 for 30
rand_max_subnets_32(source, max_subnets) ==
    LET e == SubU8(32, source) IN
    IF ~e.ok THEN e ELSE
    LET p == pow(e.v) IN
    IF ~p.ok THEN p ELSE Ok(min(p.v, max_subnets))

\* min(2u32.pow((30 - source).into()), max_subnets)
rand_max_subnets(source, max_subnets) ==
    LET e == SubU8(30, source) IN
    IF ~e.ok THEN e ELSE
    LET p == pow(e.v) IN
    IF ~p.ok THEN p ELSE Ok(min(p.v, max_subnets))

\* the values of rng.gen_range(min_cidr..=max_cidr) the model follows: both
\* ends and the prefixes of RandCidrs between them
gen_range_u8(lo, hi) == {c \in RandCidrs \cup {lo, hi} : lo <= c /\ c <= hi}

\* the values of rng.gen_range(lo..=hi) the model follows: both ends and the
\* counts of Counts between them
gen_range(lo, hi) == {t \in Counts \cup {lo, hi} : Le(lo, t) /\ Le(t, hi)}

\* the task built once source is drawn: every outcome over the draws of target
\* and ip
rand_with_source(min_subnets, max_subnets, source) ==
    LET hi == rand_max_subnets(source, max_subnets) IN
    IF ~hi.ok THEN {hi}
    ELSE IF Lt(hi.v, min_subnets) THEN {Panic("cannot sample empty range")}
    ELSE {LET net == GenNetNew(ip, source, 32)
          IN  IF net.ok THEN Ok([network |-> net.v, subnets |-> target]) ELSE net :
              target \in gen_range(min_subnets, hi.v), ip \in Addrs(32)}

\* every outcome of TaskV4::rand over the draws of the random source
rand(min_subnets, max_subnets, min_cidr, max_cidr) ==
    IF min_cidr > 32 \/ max_cidr > 32 THEN {Panic("explicit panic")}
    ELSE IF min_cidr > max_cidr THEN {Panic("cannot sample empty range")}
    ELSE UNION {rand_with_source(min_subnets, max_subnets, source) :
                source \in gen_range_u8(min_cidr, max_cidr)}

----------------------------------------------------------------------------
(* The runs *)

Init ==
    /\ overflow_checks \in BOOLEAN
    /\ family \in Families
    /\ pc = "start"
    /\ network = Panic("")
    /\ subnets = ZERO
    /\ ret = NoCall

\* GenNet::new(ip, cidr)
New ==
    /\ pc = "start"
    /\ \E ip \in Addrs(BITS(family)), cidr \in Cidrs(BITS(family)) :
         LET r == GenNetNew(ip, cidr, BITS(family)) IN
         /\ network' = r
         /\ ret' = Call("new", <<ip, cidr>>, r)
         /\ pc' = IF r.ok THEN "net" ELSE "panicked"
    /\ UNCHANGED <<overflow_checks, family, subnets>>

\* GenNet::new(s.network_address(), s.cidr()) on a constructed subnet s
Renew ==
    /\ pc = "net"
    /\ ret' = Call("renew", <<network.v.na, network.v.cidr>>,
                   GenNetNew(network.v.na, network.v.cidr, BITS(family)))
    /\ pc' = "done"
    /\ UNCHANGED <<overflow_checks, family, network, subnets>>

\* sn_from_cidr_gen_bits::<Ip>(cidr)
SnFromCidr ==
    /\ pc = "start"
    /\ \E cidr \in Cidrs(BITS(family)) :
         ret' = Call("sn_from_cidr_gen_bits", <<cidr>>,
                     sn_from_cidr_gen_bits(cidr, BITS(family)))
    /\ pc' = "done"
    /\ UNCHANGED <<overflow_checks, family, network, subnets>>

\* s.subnetmask_bits() on a constructed subnet s
SubnetmaskBits ==
    /\ pc = "net"
    /\ ret' = Call("subnetmask_bits", <<network.v.cidr>>,
                   subnetmask_bits(network.v, BITS(family)))
    /\ pc' = "done"
    /\ UNCHANGED <<overflow_checks, family, network, subnets>>

\* s.host_bits() on a constructed subnet s
HostBits ==
    /\ pc = "net"
    /\ ret' = Call("host_bits", <<network.v.cidr>>, Ok(host_bits(network.v)))
    /\ pc' = "done"
    /\ UNCHANGED <<overflow_checks, family, network, subnets>>

\* TaskGen::parse: the text "<ip>/<cidr> -> <networks>", cidr of one or two
\* digits, networks a u32
TaskParse ==
    /\ pc = "start"
    /\ \E ip \in Addrs(BITS(family)), cidr \in Cidrs(BITS(family)), n \in Counts :
         LET r == GenNetNew(ip, cidr, BITS(family)) IN
         /\ cidr <= 99
         /\ network' = r
         /\ subnets' = n
         /\ ret' = Call("parse", <<ip, cidr, n>>, r)
         /\ pc' = IF r.ok THEN "task" ELSE "panicked"
    /\ UNCHANGED <<overflow_checks, family>>

\* TaskV4::rand(min_subnets, max_subnets, min_cidr, max_cidr)
TaskRand ==
    /\ pc = "start"
    /\ family = "V4"
    /\ \E min_subnets \in RandMinSubnets, max_subnets \in RandMaxSubnets,
          min_cidr \in RandCidrs, max_cidr \in RandCidrs :
         \E r \in rand(min_subnets, max_subnets, min_cidr, max_cidr) :
           LET net == IF r.ok THEN Ok(r.v.network) ELSE r IN
           /\ network' = net
           /\ subnets' = IF r.ok THEN r.v.subnets ELSE ZERO
           /\ ret' = Call("rand", <<min_subnets, max_subnets, min_cidr, max_cidr>>, net)
           /\ pc' = IF r.ok THEN "task" ELSE "panicked"
    /\ UNCHANGED <<overflow_checks, family>>

\* task.target_cidr()
TargetCidr ==
    /\ pc = "task"
    /\ ret' = Call("target_cidr", <<>>, target_cidr(network.v, subnets))
    /\ pc' = "done"
    /\ UNCHANGED <<overflow_checks, family, network, subnets>>

\* task.new_subnets()
NewSubnets ==
    /\ pc = "task"
    /\ ret' = Call("new_subnets", <<>>, new_subnets(network.v, subnets))
    /\ pc' = "done"
    /\ UNCHANGED <<overflow_checks, family, network, subnets>>

\* task.target_networks(), for the tasks of at most 2^MaxExtraBits subnets
TargetNetworks ==
    /\ pc = "task"
    /\ LET r == target_networks(network.v, subnets, BITS(family)) IN
         /\ r.msg # TooLong
         /\ ret' = Call("target_networks", <<>>, r)
    /\ pc' = "done"
    /\ UNCHANGED <<overflow_checks, family, network, subnets>>

Next ==
    \/ New
    \/ Renew
    \/ SnFromCidr
    \/ SubnetmaskBits
    \/ HostBits
    \/ TaskParse
    \/ TaskRand
    \/ TargetCidr
    \/ NewSubnets
    \/ TargetNetworks

Spec == Init /\ [][Next]_vars

\* the runs of the exercise generator: the tasks TaskV4::rand produces and
\* what is computed of them
RandNext ==
    \/ TaskRand
    \/ TargetCidr
    \/ NewSubnets
    \/ TargetNetworks

RandSpec == Init /\ [][RandNext]_vars

\* the runs of net.rs alone: the calls on subnets, without tasks
NetNext ==
    \/ New
    \/ Renew
    \/ SnFromCidr
    \/ SubnetmaskBits
    \/ HostBits

NetSpec == Init /\ [][NetNext]_vars

----------------------------------------------------------------------------
(* What the properties are stated with *)

W == BITS(family)

\* the smallest k with 2^k >= n, for a word n # 0
CeilLog2(n) == IF Cardinality(n) = 1 THEN Max(n) ELSE Max(n) + 1

\* the word of cidr leading one-bits
LeadingOnes(cidr, w) == {b \in MAX(w) : b >= w - cidr}

\* x + 1 and x - 1 as numbers: 2^w is {w}, and -1 is {-1}, neither one a word
Succ(x, w) ==
    IF x = MAX(w) THEN {w}
    ELSE LET z == Min(MAX(w) \ x) IN (x \ (0 .. (z - 1))) \cup {z}

Pred(x) ==
    IF x = {} THEN {-1}
    ELSE LET z == Min(x) IN (x \ {z}) \cup (0 .. (z - 1))

\* x + y modulo 2^w
RECURSIVE Sum(_, _, _)
Sum(x, y, w) ==
    IF y = {} THEN x
    ELSE Sum((x \ y) \cup (y \ x), {b + 1 : b \in x \cap y} \cap MAX(w), w)

\* i * 2^s modulo 2^w
Times2Pow(i, s, w) == {b + s : b \in FromNat(i, w)} \cap MAX(w)

\* the answer "no usable hosts"
NoUsableHosts == <<>>

Returned(name) == ret.op = name /\ ret.ok

----------------------------------------------------------------------------
(* C1 *)

\* C1: the ranges [na, bc] of the subnets target_networks returns are pairwise
\* disjoint and their union is the range [na, bc] of the base network: each
\* lies in the base range, one starts at the base's network address, and each
\* ends at the base's broadcast address or right before another one.
C1_Tiling ==
    Returned("target_networks") =>
        LET nets == ret.v
            base == network.v
            I == 1 .. Len(nets)
        IN  /\ \A i, j \in I :
                 i < j => \/ Lt(nets[i].bc, nets[j].na)
                          \/ Lt(nets[j].bc, nets[i].na)
            /\ \A i \in I : /\ Le(base.na, nets[i].na)
                             /\ Le(nets[i].na, nets[i].bc)
                             /\ Le(nets[i].bc, base.bc)
            /\ \E i \in I : nets[i].na = base.na
            /\ \A i \in I : \/ nets[i].bc = base.bc
                             \/ \E j \in I : nets[j].na = Succ(nets[i].bc, W)

(* C2 *)

\* C2: for every count n >= 1, new_subnets returns 2^ceil(log2(n)), which is
\* at least n, and target_networks returns that many subnets.
C2_CountLaw ==
    subnets # ZERO =>
        /\ ret.op = "new_subnets" =>
              /\ ret.ok
              /\ ret.v = {CeilLog2(subnets)}
              /\ Le(subnets, ret.v)
        /\ Returned("target_networks") => Len(ret.v) = 2 ^ CeilLog2(subnets)

(* C3 *)

\* C3: for every base prefix p and count n >= 1, target_cidr returns p + k,
\* k the smallest number with 2^k >= n.
C3_MinimalTargetPrefix ==
    (ret.op = "target_cidr" /\ subnets # ZERO) =>
        /\ ret.ok
        /\ ret.v = network.v.cidr + CeilLog2(subnets)

(* C4 *)

\* C4: every subnet target_networks returns has the prefix target_cidr(), the
\* i-th one (from 0) has the network address base.na + i * 2^(W - target_cidr),
\* and the network addresses are strictly ascending.
C4_OrderedUniform ==
    Returned("target_networks") =>
        LET nets == ret.v
            base == network.v
            t == target_cidr(base, subnets).v
        IN  /\ \A i \in 1 .. Len(nets) :
                 /\ nets[i].cidr = t
                 /\ nets[i].na = Sum(base.na, Times2Pow(i - 1, W - t, W), W)
            /\ \A i \in 1 .. (Len(nets) - 1) : Lt(nets[i].na, nets[i + 1].na)

(* C5 *)

\* C5: target_networks fails exactly when p + ceil(log2(n)) > W, and returns
\* the list whenever the target prefix is at most W.
C5_FailsIffTooLong ==
    (ret.op = "target_networks" /\ subnets # ZERO) =>
        (~ret.ok <=> network.v.cidr + CeilLog2(subnets) > W)

(* C6 *)

\* C6: GenNet::new fails, with "CIDR to big", exactly when cidr > W, and for
\* every address and every cidr in 0..W it returns a subnet whose cidr is the
\* given one.
C6_InvalidPrefixOnly ==
    ret.op = "new" =>
        LET cidr == ret.arg[2]
        IN  /\ (~ret.ok /\ ret.msg = "CIDR to big") <=> cidr > W
            /\ cidr <= W => (ret.ok /\ ret.v.cidr = cidr)

(* C7 *)

\* C7: for cidr <= W-2 the host range is (na + 1, bc - 1); for cidr W-1 and W
\* construction does not panic and the host range is the answer "no usable
\* hosts", never a pair whose lower bound is above its upper bound.
C7_HostRange ==
    /\ (Returned("new") /\ ret.arg[2] <= W - 2) =>
          host_bits(ret.v) = <<Succ(ret.v.na, W), Pred(ret.v.bc)>>
    /\ (ret.op = "new" /\ ret.arg[2] \in {W - 1, W}) =>
          /\ ret.ok
          /\ host_bits(ret.v) = NoUsableHosts
          /\ ~Lt(ret.v.host_until, ret.v.host_from)
    /\ (ret.op = "host_bits" /\ ret.arg[1] \in {W - 1, W}) =>
          ret.v = NoUsableHosts

(* C8 *)

\* C8: for every cidr in 0..W the mask is the word of cidr leading one-bits
\* followed by W - cidr zero-bits.
C8_MaskShape ==
    (ret.op \in {"sn_from_cidr_gen_bits", "subnetmask_bits"} /\ ret.arg[1] <= W) =>
        /\ ret.ok
        /\ ret.v = LeadingOnes(ret.arg[1], W)

(* C9 *)

C10_Idempotent ==
    ret.op = "renew" =>
        /\ ret.ok
        /\ ret.v.na = network.v.na
        /\ ret.v.bc = network.v.bc
        /\ subnetmask_bits(ret.v, W) = subnetmask_bits(network.v, W)
        /\ host_bits(ret.v) = host_bits(network.v)
        /\ ret.v.cidr = network.v.cidr

\* a subnet built from an address with host bits set, and built again
C10_Witness ==
    /\ Returned("renew")
    /\ network.v.initial_ip # network.v.na
    /\ network.v.cidr \in 1 .. (W - 2)

(* C11 *)

\* the condition of C11 on the arguments of rand
C11_Arguments ==
    LET min_subnets == ret.arg[1]
        max_subnets == ret.arg[2]
        min_cidr == ret.arg[3]
        max_cidr == ret.arg[4]
    IN  /\ min_cidr <= max_cidr
        /\ max_cidr <= 30
        /\ Le(min_subnets, {30 - max_cidr})
        /\ Le(min_subnets, max_subnets)

====
